---- MODULE Spec2Model ----
(***************************************************************************)
(* Session / streaming / tool bridging protocol of the Capacitor           *)
(* FoundationModels integration:                                           *)
(*   - FoundationModelsService (src/src/services/foundation.models.service.ts) *)
(*   - FoundationModelsPlugin and _LanguageModelSessionProvider             *)
(*     (src/unnamed/part_003, the Swift plugin)                            *)
(*   - ToolManager (src/unnamed/part_004)                                  *)
(*   - the chat UI's sendMessage (src/ios/App/App/FoundationModelsPlugin.swift) *)
(*                                                                         *)
(* The JavaScript side is a single-threaded event loop: every piece of     *)
(* code between two awaits is one atomic action.  The native side runs     *)
(* concurrently; its effects are separate actions.                         *)
(***************************************************************************)
EXTENDS Integers, Sequences, FiniteSets, TLC

(* --------------------------- bounds ------------------------------------ *)
\* number of wrapper calls issued in one behaviour (call slots 1..MaxCalls)
MaxCalls == 3
\* number of calls issued where every gated operation is drawn
MaxGateCalls == 2
\* number of streams started in one behaviour
MaxStreams == 2
\* number of events (content chunks and sentinels) the provider emits in one
\* behaviour, all streams together
MaxEvents == 2
\* number of tool invocations the provider makes in one behaviour
MaxToolCalls == 2
\* number of sendToolResult calls client code makes for one call id
MaxSends == 2
\* number of property names a schema passed to generateWithSchema can use
MaxProps == 2
\* number of registerTool calls in flight at once where the registries are
\* examined, and number of tool invocations made there
MaxRegs == 2
MaxRegistryCalls == 1

\* length of the texts the model's snapshots hold, and number of snapshots
\* of one stream
MaxLen == 2
MaxSnapshots == 3

\* number of messages sent from the chat UI in one behaviour, and length of
\* the longest response
MaxMessages == 2
MaxResponse == 2

\* number of times the user changes the tool selection in one behaviour
MaxToggles == 3

\* number of sessions created where makeSession is examined
MaxMade == 2

(* --------------------------- constants of the code --------------------- *)
STREAM_COMPLETE == "[STREAM_COMPLETE]"
STREAM_ERROR == "[STREAM_ERROR]"
Sentinels == {STREAM_COMPLETE, STREAM_ERROR}
\* content chunks the model may produce
Chunks == {"a", "b"}

\* AvailabilityResult['status']
UnavailableStatuses == {"notEnabled", "notEligible", "notReady", "unavailable", "notSupported"}
AvailabilityStatuses == {"available"} \cup UnavailableStatuses
\* results with available = false: the five statuses, and the result the
\* plugin gives below iOS 26, which carries no status ("noStatus")
UnavailableOutcomes == UnavailableStatuses \cup {"noStatus"}
\* what one availability query can come back with: available, one of the
\* unavailable results, or a rejected bridge call ("rejected")
AvailabilityOutcomes == {"available"} \cup UnavailableOutcomes \cup {"rejected"}

\* the result the plugin's checkAvailability resolves with for each outcome:
\* the provider's five cases and the stub's notSupported carry a status;
\* the result given below iOS 26 has only `available` and `reason`
PluginAvailability(out) ==
  CASE out = "available" -> [available |-> TRUE, status |-> "available"]
    [] out \in UnavailableStatuses -> [available |-> FALSE, status |-> out]
    [] out = "noStatus" -> [available |-> FALSE, status |-> "undefined"]

\* the status of the AvailabilityError ensureAvailable throws:
\* new AvailabilityError(availability.status, availability.reason)
AvailabilityErrorStatus(out) == PluginAvailability(out).status

StatelessOps == {"generateText", "generateSummary", "generateWithSchema",
                 "generateWithInstructions", "generateWithOptions", "echo"}
GatedOps == StatelessOps \cup {"generateStreaming", "createConversationSession",
                               "continueConversation"}

\* the code of the FoundationModelsError each operation throws when its
\* provider call is rejected
FailCode(op) ==
  CASE op = "generateText" -> "GENERATION_FAILED"
    [] op = "generateSummary" -> "SUMMARY_FAILED"
    [] op = "echo" -> "ECHO_FAILED"
    [] op = "generateWithSchema" -> "SCHEMA_GENERATION_FAILED"
    [] op = "generateWithInstructions" -> "INSTRUCTION_GENERATION_FAILED"
    [] op = "generateStreaming" -> "STREAMING_FAILED"
    [] op = "createConversationSession" -> "SESSION_CREATION_FAILED"
    [] op = "continueConversation" -> "CONVERSATION_FAILED"
    [] op = "generateWithOptions" -> "ADVANCED_GENERATION_FAILED"

\* the key of the payload the plugin resolves each operation's call with
\* (call.resolve(["text": text]) and the like)
ResolveField(op) ==
  CASE op \in {"generateText", "generateWithInstructions", "generateWithOptions",
               "continueConversation"} -> "text"
    [] op \in {"generateSummary", "generateWithSchema"} -> "json"
    [] op = "echo" -> "reply"
    [] op = "generateStreaming" -> "streamId"
    [] op = "createConversationSession" -> "sessionId"

\* the key of the resolved payload the wrapper reads its return value from
\* (variant: generateText reads result.response)
ReturnedFieldResponse(op) ==
  CASE op \in {"generateWithInstructions", "generateWithOptions",
               "continueConversation"} -> "text"
    [] op = "generateText" -> "response"
    [] op \in {"generateSummary", "generateWithSchema"} -> "json"
    [] op = "echo" -> "reply"
    [] op = "generateStreaming" -> "streamId"
    [] op = "createConversationSession" -> "sessionId"

ReturnedField(op) ==
  CASE op \in {"generateText", "generateWithInstructions", "generateWithOptions",
               "continueConversation"} -> "text"
    [] op \in {"generateSummary", "generateWithSchema"} -> "json"
    [] op = "echo" -> "reply"
    [] op = "generateStreaming" -> "streamId"
    [] op = "createConversationSession" -> "sessionId"

\* the value a call that returned normally hands its caller is defined: the
\* key it reads is the key the plugin set (to a non-optional String)
ReturnsDefined(op) == ReturnedField(op) = ResolveField(op)

SessionOps == {"createConversationSession", "continueConversation"}
\* availability outcomes drawn where the statuses need not be told apart
SessionOutcomes == {"available", "notReady", "rejected"}
StreamOutcomes == {"available", "notEnabled"}

\* tool identifiers the client registers, and the handler functions it has
ToolIds == {"calc", "clock"}
Handlers == {"h1", "h2"}
\* the name and description a registration carries, as one value
ToolInfos == {"i1", "i2"}
\* the name and description the client passes along with a handler
InfoOf(h) == IF h = "h1" THEN "i1" ELSE "i2"
\* the registration data drawn where the handshake is examined
HandshakeInfos == {"i1"}
\* the handlers drawn where the handshake, not the registry, is examined
HandshakeHandlers == {"h1"}
\* what a handler can do with a payload: return a string, return a value
\* JSON.stringify serializes, return undefined (JSON.stringify gives
\* undefined), return a value JSON.stringify throws on, or throw / reject
HandlerOutcomes == {"string", "object", "undefined", "circular", "throws"}
ToolCallIds == 1..MaxToolCalls

Max(a, b) == IF a > b THEN a ELSE b
NumSlots == Max(MaxCalls, Max(MaxGateCalls, MaxStreams))
CallIds == 1..NumSlots
\* identifiers the provider hands out (UUIDs in the code: fresh, never reused)
Ids == 1..NumSlots
\* an identifier no createSession ever returns
GhostId == 0

VARIABLES
  calls,               \* the wrapper calls: position and outcome of each
  activeSessions,      \* FoundationModelsService.activeSessions (keys of the Map)
  sessObj,             \* the ConversationSession objects the Map refers to
  streamingListeners,  \* FoundationModelsService.streamingListeners
  sessions,            \* _LanguageModelSessionProvider.sessions (keys)
  streamingSessions,   \* provider stream tasks: position of each
  evq,                 \* native -> web view messages in flight, in order:
                       \* streamingUpdate events and generateStreaming replies
  cbLog,               \* what each caller's onChunk callback has received
  returned,            \* history: ids returned by createConversationSession
  ended,               \* history: ids passed to endConversationSession
  succ,                \* history: successful turns per session id
  dropped,             \* history: events per stream id that found no listener
  jsToolHandlers,      \* the client handler registry (toolId -> handler)
  regPending,          \* registerTool bridge calls in flight
  registeredTools,     \* _LanguageModelSessionProvider.registeredTools
                       \* (toolId -> name and description of the bridge object)
  pendingToolContinuations,  \* provider: call ids with a stored continuation
  toolCalls,           \* the tool invocations: position and counts of each
  gen,                 \* one stateless generation request: its arguments,
                       \* how far it has got and what came of it
  chat,                \* the chat UI: settings, and the message being sent
  streamTask,          \* one provider stream task: the snapshots the model
                       \* produces and the chunks emitted for them
  ui,                  \* the chat UI: transcript, flags and requests in flight
  mgr,                 \* the ToolManager component: selection, registration
                       \* runs and the list it reports
  resolvedTools,       \* history: tool ids whose registerTool call has resolved
  madeSessions         \* history: the sessions makeSession has created

toolVars == <<jsToolHandlers, regPending, registeredTools, pendingToolContinuations, toolCalls,
              gen, chat,
              streamTask, ui, mgr, resolvedTools, madeSessions>>

\* the state of sessions, streams and tools
bridgeVars == <<calls, activeSessions, sessObj, streamingListeners, sessions,
                streamingSessions, evq, cbLog, returned, ended, succ, dropped,
                jsToolHandlers, regPending, registeredTools, pendingToolContinuations, toolCalls>>

\* the state of the stream task, the chat transcript, the ToolManager and
\* the session history
lateVars == <<streamTask, ui, mgr, resolvedTools, madeSessions>>

vars == <<calls, activeSessions, sessObj, streamingListeners, sessions,
          streamingSessions, evq, cbLog, returned, ended, succ, dropped,
          jsToolHandlers, regPending, registeredTools, pendingToolContinuations, toolCalls,
          gen, chat,
              streamTask, ui, mgr, resolvedTools, madeSessions>>

IdleCall == [op |-> "none", pc |-> "idle", id |-> GhostId, avail |-> "none",
             reply |-> "none", result |-> "none", provCalls |-> 0, stale |-> FALSE]

\* an output handed to sendToolResult: a string, or undefined
NoOutput == [defined |-> FALSE, text |-> ""]
Str(t) == [defined |-> TRUE, text |-> t]

NoToolCall == [toolId |-> "none", pc |-> "none", handler |-> "none", outcome |-> "none",
               out |-> NoOutput, reply |-> "none", sent |-> 0, reached |-> 0, resumed |-> 0]

NoSession == [isActive |-> FALSE, messageCount |-> 0]

\* no stateless generation request is being followed
NoSchema == [kind |-> "none", type |-> "none", hasProps |-> FALSE, properties |-> <<>>]
NoRequest == [op |-> "none", prompt |-> NoOutput, instructions |-> NoOutput,
              context |-> NoOutput,
              schema |-> NoSchema, pc |-> "none", reply |-> "none", result |-> "none",
              modelCalls |-> 0]

BridgeInit ==
  /\ calls = [c \in CallIds |-> IdleCall]
  /\ activeSessions = {}
  /\ sessObj = [i \in Ids |-> NoSession]
  /\ streamingListeners = <<>>
  /\ sessions = {}
  /\ streamingSessions = [i \in Ids |-> [state |-> "none", emitted |-> 0]]
  /\ evq = <<>>
  /\ cbLog = [c \in CallIds |-> <<>>]
  /\ returned = {}
  /\ ended = {}
  /\ succ = [i \in Ids |-> 0]
  /\ dropped = [i \in Ids |-> 0]
  /\ jsToolHandlers = <<>>
  /\ regPending = {}
  /\ registeredTools = <<>>
  /\ pendingToolContinuations = {}
  /\ toolCalls = [k \in ToolCallIds |-> NoToolCall]

\* the chat UI with no message sent
NoChat == [scenario |-> "basic", streaming |-> FALSE, withInstructions |-> FALSE,
           hasSession |-> FALSE, schemaValid |-> TRUE, toolsRegistered |-> FALSE,
           pc |-> "idle", op |-> "none", fallback |-> FALSE, failed |-> {},
           shown |-> "none"]

\* no stream task is being followed
NoStreamTask == [partials |-> <<>>, next |-> 1, lastText |-> <<>>, emitted |-> <<>>,
                 pc |-> "none"]

\* no sendMessage call is running
NoSend == [pc |-> "idle", streaming |-> FALSE, scenario |-> "basic", session |-> 0,
           fullResponse |-> 0, i |-> 0, stopped |-> FALSE, cleared |-> FALSE]

\* the chat UI after mounting.  Texts are kept by their length; a session
\* by its number, 0 for none.
NoUi == [streaming |-> FALSE, scenario |-> "basic", messages |-> <<>>,
         isLoading |-> FALSE, isStreaming |-> FALSE, streamingContent |-> 0,
         error |-> FALSE, conversationSession |-> 0, n |-> 0, send |-> NoSend,
         created |-> 0, ended |-> {}, turns |-> {}]

\* no registration run has been started
NoRun == [pc |-> "none", selectedTools |-> <<>>, k |-> 0, newRegisteredTools |-> <<>>,
          failed |-> FALSE]

\* the ToolManager after mounting with nothing selected
NoMgr == [selectedTools |-> <<>>, registeredTools |-> <<>>, isRegistering |-> FALSE,
          runs |-> <<>>]

LateInit ==
  /\ streamTask = NoStreamTask
  /\ ui = NoUi
  /\ mgr = NoMgr
  /\ resolvedTools = {}
  /\ madeSessions = {}

Init ==
  /\ BridgeInit
  /\ gen = NoRequest
  /\ chat = NoChat
  /\ LateInit


(* ------------------- wrapper: availability gate ------------------------ *)
\* checkAvailability + ensureAvailable: the error the gate raises for one
\* outcome of the availability query, "ok" when it lets the call through
\* (variant: the gate does not look at the available flag)
ensureAvailableNoFlag(out) ==
  IF out = "rejected" THEN "AVAILABILITY_CHECK_FAILED" ELSE "ok"

ensureAvailable(out) ==
  IF out = "rejected" THEN "AVAILABILITY_CHECK_FAILED"
  ELSE IF out # "available" THEN "AVAILABILITY_ERROR"
  ELSE "ok"

\* (variant: the lookup does not test isActive)
SessionUsableAnyEntry(id) == id \in activeSessions

\* continueConversation's lookup: `!session || !session.isActive` is false
SessionUsable(id) ==
  /\ id \in activeSessions
  /\ sessObj[id].isActive

\* A caller can only name identifiers it has been given, or made-up ones
\* (which no createSession ever returns, identifiers being fresh UUIDs).
KnownIds == returned \cup {GhostId}

\* A gated operation is called: it runs up to the availability query, which
\* is now in flight (`await this.ensureAvailable()`).
Begin(c, op, id) ==
  /\ calls[c].pc = "idle"
  /\ \A b \in CallIds : b < c => calls[b].pc # "idle"
  /\ op \in GatedOps
  /\ id \in KnownIds
  /\ op # "continueConversation" => id = GhostId
  /\ calls' = [calls EXCEPT ![c] =
        [IdleCall EXCEPT !.op = op, !.pc = "checking", !.id = id,
                         !.stale = (id \notin returned \/ id \in ended)]]
  /\ UNCHANGED <<activeSessions, sessObj, streamingListeners, sessions,
                 streamingSessions, evq, cbLog, returned, ended, succ, dropped, toolVars>>

\* The availability query comes back with outcome `out`; the operation runs
\* on to its provider call, or throws.
AvailReply(c, out) ==
  /\ calls[c].pc = "checking"
  /\ out \in AvailabilityOutcomes
  /\ LET gate == ensureAvailable(out)
         cur == [calls[c] EXCEPT !.avail = out]
     IN calls' = [calls EXCEPT ![c] =
          IF gate # "ok"
            THEN [cur EXCEPT !.pc = "done", !.result = gate]
          ELSE IF cur.op = "continueConversation" /\ ~SessionUsable(cur.id)
            THEN [cur EXCEPT !.pc = "done", !.result = "SESSION_NOT_FOUND"]
          ELSE [cur EXCEPT !.pc = "calling", !.provCalls = @ + 1]]
  /\ UNCHANGED <<activeSessions, sessObj, streamingListeners, sessions,
                 streamingSessions, evq, cbLog, returned, ended, succ, dropped, toolVars>>

(* ------------------- plugin / provider side ---------------------------- *)
\* UUID().uuidString: an identifier nobody has seen before.  Every call
\* creates at most one identifier, so the call's own number is fresh.
FreshId(c) == c

\* The plugin method runs and settles the bridge call.
\*   stateless generation: session.respond returns or throws
\*   createSession: fresh id, stored in `sessions`, never throws
\*   continueConversation: unknown id is rejected, else respond returns or throws
\*   generateStreaming: fresh id, the stream task is started; the reply is
\*     sent afterwards (ProviderStreamReply), never throws
ProviderExec(c, r) ==
  /\ calls[c].pc = "calling"
  /\ r \in {"resolve", "reject"}
  /\ LET op == calls[c].op IN
     CASE op \in StatelessOps ->
            /\ calls' = [calls EXCEPT ![c].pc = "replied", ![c].reply = r]
            /\ UNCHANGED <<sessions, streamingSessions>>
       [] op = "createConversationSession" ->
            /\ r = "resolve"
            /\ sessions' = sessions \cup {FreshId(c)}
            /\ calls' = [calls EXCEPT ![c].pc = "replied", ![c].reply = r,
                                      ![c].id = FreshId(c)]
            /\ UNCHANGED streamingSessions
       [] op = "continueConversation" ->
            /\ calls[c].id \notin sessions => r = "reject"
            /\ calls' = [calls EXCEPT ![c].pc = "replied", ![c].reply = r]
            /\ UNCHANGED <<sessions, streamingSessions>>
       [] op = "generateStreaming" ->
            /\ r = "resolve"
            /\ streamingSessions' = [streamingSessions EXCEPT ![FreshId(c)].state = "running"]
            /\ calls' = [calls EXCEPT ![c].pc = "started", ![c].id = FreshId(c)]
            /\ UNCHANGED sessions
  /\ UNCHANGED <<activeSessions, sessObj, streamingListeners, evq, cbLog,
                 returned, ended, succ, dropped, toolVars>>

\* messages on their way to the web view
Event(ch, s) == [kind |-> "event", chunk |-> ch, callId |-> s]
Reply(s) == [kind |-> "reply", chunk |-> "", callId |-> s]

\* provider generateStreaming returns the stream id (after the task was
\* started and stored) and the plugin resolves the call: the reply is
\* queued behind whatever the stream task has sent already.
ProviderStreamReply(c) ==
  /\ calls[c].pc = "started"
  /\ calls' = [calls EXCEPT ![c].pc = "replied", ![c].reply = "resolve"]
  /\ evq' = Append(evq, Reply(calls[c].id))
  /\ UNCHANGED <<activeSessions, sessObj, streamingListeners, sessions, streamingSessions,
                 cbLog, returned, ended, succ, dropped, toolVars>>

\* events emitted so far: the content chunks and one sentinel per finished stream
RECURSIVE SumEmitted(_)
SumEmitted(S) ==
  IF S = {} THEN 0
  ELSE LET s == CHOOSE x \in S : TRUE
       IN streamingSessions[s].emitted
          + (IF streamingSessions[s].state = "finished" THEN 1 ELSE 0)
          + SumEmitted(S \ {s})

\* the stream task emits one content chunk
StreamChunk(s, ch) ==
  /\ streamingSessions[s].state = "running"
  /\ SumEmitted(Ids) < MaxEvents
  /\ ch \in Chunks
  /\ evq' = Append(evq, Event(ch, s))
  /\ streamingSessions' = [streamingSessions EXCEPT ![s].emitted = @ + 1]
  /\ UNCHANGED <<calls, activeSessions, sessObj, streamingListeners, sessions,
                 cbLog, returned, ended, succ, dropped, toolVars>>

\* the stream task ends: the snapshot sequence is exhausted or throws
StreamEnd(s, sentinel) ==
  /\ streamingSessions[s].state = "running"
  /\ SumEmitted(Ids) < MaxEvents
  /\ sentinel \in Sentinels
  /\ evq' = Append(evq, Event(sentinel, s))
  /\ streamingSessions' = [streamingSessions EXCEPT ![s].state = "finished"]
  /\ UNCHANGED <<calls, activeSessions, sessObj, streamingListeners, sessions,
                 cbLog, returned, ended, succ, dropped, toolVars>>


(* ------------------- wrapper: after the provider call ------------------ *)
\* session.messageCount after the awaited continueConversation call settled:
\* `session.messageCount++` sits behind the await inside the try block
\* (variant: the increment sits before the await)
CountAfterAlways(reply, n) == n + 1

CountAfter(reply, n) == IF reply = "resolve" THEN n + 1 ELSE n

\* Map.set(key, value) and Map.delete(key) on a table held as a function
MapSet(m, k, v) == [x \in DOMAIN m \cup {k} |-> IF x = k THEN v ELSE m[x]]
MapDelete(m, k) == [x \in DOMAIN m \ {k} |-> m[x]]

\* The awaited provider call settles and the operation runs to its end.
\* (A generateStreaming reply is taken from the head of the message queue.)
Resume(c) ==
  /\ calls[c].pc = "replied"
  /\ IF calls[c].op = "generateStreaming"
       THEN /\ evq # <<>>
            /\ Head(evq) = Reply(calls[c].id)
            /\ evq' = Tail(evq)
       ELSE UNCHANGED evq
  /\ LET op == calls[c].op
         id == calls[c].id
         ok == calls[c].reply = "resolve"
     IN
     /\ calls' = [calls EXCEPT ![c].pc = "done",
                               ![c].result = IF ok THEN "ok" ELSE FailCode(op)]
     /\ CASE op = "createConversationSession" /\ ok ->
               /\ sessObj' = [sessObj EXCEPT ![id] = [isActive |-> TRUE, messageCount |-> 0]]
               /\ activeSessions' = activeSessions \cup {id}
               /\ returned' = returned \cup {id}
               /\ UNCHANGED <<streamingListeners, succ>>
          [] op = "continueConversation" ->
               /\ sessObj' = [sessObj EXCEPT ![id].messageCount = CountAfter(calls[c].reply, @)]
               /\ activeSessions' = IF ok THEN activeSessions \cup {id} ELSE activeSessions
               /\ succ' = IF ok THEN [succ EXCEPT ![id] = @ + 1] ELSE succ
               /\ UNCHANGED <<streamingListeners, returned>>
          [] op = "generateStreaming" /\ ok ->
               /\ streamingListeners' = MapSet(streamingListeners, id, [streamId |-> id, cb |-> c])
               /\ UNCHANGED <<sessObj, activeSessions, returned, succ>>
          [] OTHER ->
               UNCHANGED <<sessObj, activeSessions, returned, succ, streamingListeners>>
  /\ UNCHANGED <<sessions, streamingSessions, cbLog, ended, dropped, toolVars>>

\* what endConversationSession does to the session table `tbl` and the
\* session objects `objs`, and the error it throws ("none": it returns)
\* (variant: a missing session is an error, as in continueConversation)
EndSessionStrict(tbl, objs, id) ==
  IF id \in tbl
    THEN [activeSessions |-> tbl \ {id},
          sessObj |-> [objs EXCEPT ![id].isActive = FALSE],
          error |-> "none"]
    ELSE [activeSessions |-> tbl, sessObj |-> objs, error |-> "SESSION_NOT_FOUND"]

EndSession(tbl, objs, id) ==
  IF id \in tbl
    THEN [activeSessions |-> tbl \ {id},
          sessObj |-> [objs EXCEPT ![id].isActive = FALSE],
          error |-> "none"]
    ELSE [activeSessions |-> tbl, sessObj |-> objs, error |-> "none"]

\* endConversationSession has no await: it runs in one piece.
endConversationSession(id) ==
  /\ id \in KnownIds
  /\ LET r == EndSession(activeSessions, sessObj, id) IN
     /\ sessObj' = r.sessObj
     /\ activeSessions' = r.activeSessions
  /\ ended' = ended \cup {id}
  /\ UNCHANGED <<calls, streamingListeners, sessions, streamingSessions, evq, cbLog, returned, succ, dropped, toolVars>>

(* ------------------- wrapper: streaming events ------------------------- *)
\* the constructor's streamingUpdate listener: the listeners an event with
\* this callId is handed to (`this.streamingListeners.get(data.callId)`)
\* (variant: the event is handed to whatever listener is registered)
ListenersForAny(callId) ==
  {streamingListeners[k] : k \in DOMAIN streamingListeners}

ListenersFor(callId) ==
  IF callId \in DOMAIN streamingListeners THEN {streamingListeners[callId]} ELSE {}

\* what the per-stream listener passes to the caller's onChunk for a chunk
Forwarded(chunk) == chunk

\* One streamingUpdate event reaches the web view: the constructor's listener
\* looks the stream's listener up and runs it.
StreamingUpdate ==
  /\ evq # <<>>
  /\ Head(evq).kind = "event"
  /\ LET data == Head(evq)
         ls == ListenersFor(data.callId)
     IN
     /\ evq' = Tail(evq)
     /\ IF ls = {}
          THEN /\ dropped' = [dropped EXCEPT ![data.callId] = @ + 1]
               /\ UNCHANGED <<streamingListeners, cbLog>>
          ELSE \E l \in ls :
               /\ streamingListeners' =
                    IF data.chunk \in Sentinels
                      THEN MapDelete(streamingListeners, l.streamId)
                      ELSE streamingListeners
               /\ cbLog' = [cbLog EXCEPT ![l.cb] =
                              Append(@, [chunk |-> Forwarded(data.chunk), callId |-> data.callId])]
               /\ UNCHANGED dropped
  /\ UNCHANGED <<calls, activeSessions, sessObj, sessions, streamingSessions,
                 returned, ended, succ, toolVars>>

(* ------------------- tool-call bridge ---------------------------------- *)
nonToolVars == <<calls, activeSessions, sessObj, streamingListeners, sessions,
                 streamingSessions, evq, cbLog, returned, ended, succ, dropped, gen, chat,
               streamTask, ui, mgr>>

\* a registerTool bridge call on its way to, or inside, the provider
Registration(t, i) == [toolId |-> t, info |-> i, guarded |-> FALSE]

\* registerCustomTool / the exported registerTool: the handler is stored
\* (Map.set: an entry already there is replaced), then the registration is
\* sent to the provider.
registerCustomTool(t, h) ==
  /\ t \in ToolIds
  /\ h \in Handlers
  /\ jsToolHandlers' = MapSet(jsToolHandlers, t, h)
  /\ regPending' = regPending \cup {Registration(t, InfoOf(h))}
  /\ UNCHANGED <<registeredTools, pendingToolContinuations, toolCalls, nonToolVars, resolvedTools, madeSessions>>

\* FoundationModelsService.registerTool, which ToolManager calls for every
\* selected tool: the registration is sent to the provider; the handler
\* registry is not touched.
serviceRegisterTool(t, i) ==
  /\ t \in ToolIds
  /\ i \in ToolInfos
  /\ regPending' = regPending \cup {Registration(t, i)}
  /\ UNCHANGED <<jsToolHandlers, registeredTools, pendingToolContinuations, toolCalls, nonToolVars, resolvedTools, madeSessions>>

\* provider registerTool, first half: `guard registeredTools[toolId] == nil`.
\* A tool id found in the registry ends the call; otherwise the bridge
\* object is built and the insertion is handed to the session queue.  The
\* method returns without waiting for the queue and the plugin resolves the
\* registerTool call.
providerRegisterToolGuard(t, i) ==
  /\ Registration(t, i) \in regPending
  /\ LET r == Registration(t, i) IN
     regPending' = IF r.toolId \in DOMAIN registeredTools
                     THEN regPending \ {r}
                     ELSE (regPending \ {r}) \cup {[r EXCEPT !.guarded = TRUE]}
  /\ resolvedTools' = resolvedTools \cup {t}
  /\ UNCHANGED <<jsToolHandlers, registeredTools, pendingToolContinuations, toolCalls,
                 nonToolVars, madeSessions>>

\* provider registerTool, second half: the barrier block on the session
\* queue runs `self.registeredTools[toolId] = bridge`.
providerRegisterToolInsert(t, i) ==
  /\ [Registration(t, i) EXCEPT !.guarded = TRUE] \in regPending
  /\ regPending' = regPending \ {[Registration(t, i) EXCEPT !.guarded = TRUE]}
  /\ registeredTools' = MapSet(registeredTools, t, i)
  /\ UNCHANGED <<jsToolHandlers, pendingToolContinuations, toolCalls, nonToolVars, resolvedTools, madeSessions>>

\* makeSession, called by a generation method: the new session gets the
\* tools the registry holds at this moment (read without the session queue).
makeSession ==
  /\ Cardinality(madeSessions) < MaxMade
  /\ madeSessions' = madeSessions \cup
       {[tools |-> DOMAIN registeredTools, resolved |-> resolvedTools]}
  /\ UNCHANGED <<jsToolHandlers, regPending, registeredTools, pendingToolContinuations,
                 toolCalls, nonToolVars, resolvedTools>>

\* JSToolBridge.call: during a generation the model invokes a registered
\* tool; the continuation is stored under a fresh call id, then the toolCall
\* event is sent to the web view.
JSToolBridgeCall(k, t) ==
  /\ toolCalls[k].pc = "none"
  /\ \A b \in ToolCallIds : b < k => toolCalls[b].pc # "none"
  /\ t \in DOMAIN registeredTools
  /\ pendingToolContinuations' = pendingToolContinuations \cup {k}
  /\ toolCalls' = [toolCalls EXCEPT ![k].toolId = t, ![k].pc = "event"]
  /\ UNCHANGED <<jsToolHandlers, regPending, registeredTools, nonToolVars, resolvedTools, madeSessions>>

\* The toolCall listener starts: no handler -> the empty result is sent;
\* else the handler is called and awaited.
ToolCallEvent(k) ==
  /\ toolCalls[k].pc = "event"
  /\ LET t == toolCalls[k].toolId IN
     toolCalls' = [toolCalls EXCEPT ![k] =
        IF t \notin DOMAIN jsToolHandlers
          THEN [@ EXCEPT !.pc = "sendNoHandler", !.out = Str(""), !.sent = @ + 1]
          ELSE [@ EXCEPT !.pc = "handling", !.handler = jsToolHandlers[t]]]
  /\ UNCHANGED <<jsToolHandlers, regPending, registeredTools, pendingToolContinuations, nonToolVars, resolvedTools, madeSessions>>

\* the output the try block computes from what the handler returned:
\* typeof res === 'string' ? res : JSON.stringify(res)
OutputOf(o) ==
  CASE o = "string" -> Str("4")
    [] o = "object" -> Str("{\"v\":4}")
    [] o = "undefined" -> NoOutput

\* the catch block's output: `Error: ${err?.message ?? String(err)}`
ErrorOutput(o) ==
  CASE o = "throws" -> Str("Error: boom")
    [] o = "circular" -> Str("Error: Converting circular structure to JSON")
    [] OTHER -> Str("Error: 'callId' und 'output' erforderlich")

\* (variant: no try/catch around the handler call)
AfterHandlerNoCatch(o) ==
  IF o \in {"throws", "circular"}
    THEN [pc |-> "failed", out |-> NoOutput]
    ELSE [pc |-> "sendTry", out |-> OutputOf(o)]

\* where the listener goes once the handler has settled with outcome o:
\* a throw, from the handler or from JSON.stringify, is caught
AfterHandler(o) ==
  IF o \in {"throws", "circular"}
    THEN [pc |-> "sendCatch", out |-> ErrorOutput(o)]
    ELSE [pc |-> "sendTry", out |-> OutputOf(o)]

\* The awaited handler settles; the listener sends the result or, from the
\* catch block, the error string.
HandlerSettles(k, o) ==
  /\ toolCalls[k].pc = "handling"
  /\ o \in HandlerOutcomes
  /\ LET n == AfterHandler(o) IN
     toolCalls' = [toolCalls EXCEPT ![k].pc = n.pc, ![k].out = n.out,
                                    ![k].outcome = o,
                                    ![k].sent = IF n.pc = "failed" THEN @ ELSE @ + 1]
  /\ UNCHANGED <<jsToolHandlers, regPending, registeredTools, pendingToolContinuations, nonToolVars, resolvedTools, madeSessions>>

\* plugin sendToolResult: `guard let output = call.getString("output")`
PluginAccepts(out) == out.defined

\* provider resolveToolCall on the table `pending`: a continuation stored
\* for the call id is resumed and its entry removed; without one nothing
\* happens
resolveToolCall(pending, callId) ==
  [pending |-> pending \ {callId}, resumed |-> callId \in pending]

\* Plugin sendToolResult runs for the send in flight: a missing output is
\* rejected; otherwise resolveToolCall resumes and removes the continuation
\* stored for the call id, if there is one, and the call resolves.
sendToolResult(k) ==
  /\ toolCalls[k].pc \in {"sendNoHandler", "sendTry", "sendCatch"}
  /\ toolCalls[k].reply = "none"
  /\ IF PluginAccepts(toolCalls[k].out)
       THEN /\ toolCalls' = [toolCalls EXCEPT ![k].reply = "resolve",
                               ![k].reached = @ + 1,
                               ![k].resumed =
                                  IF resolveToolCall(pendingToolContinuations, k).resumed
                                    THEN @ + 1 ELSE @]
            /\ pendingToolContinuations' = resolveToolCall(pendingToolContinuations, k).pending
       ELSE /\ toolCalls' = [toolCalls EXCEPT ![k].reply = "reject"]
            /\ UNCHANGED pendingToolContinuations
  /\ UNCHANGED <<jsToolHandlers, regPending, registeredTools, nonToolVars, resolvedTools, madeSessions>>

\* The awaited send settles: a rejection inside the try block is caught and
\* the error string is sent; elsewhere it ends the listener.
ToolListenerResume(k) ==
  /\ toolCalls[k].pc \in {"sendNoHandler", "sendTry", "sendCatch"}
  /\ toolCalls[k].reply # "none"
  /\ toolCalls' = [toolCalls EXCEPT ![k] =
        IF @.reply = "resolve" THEN [@ EXCEPT !.pc = "done", !.reply = "none"]
        ELSE IF @.pc = "sendTry"
          THEN [@ EXCEPT !.pc = "sendCatch", !.reply = "none",
                         !.out = ErrorOutput("rejected"), !.sent = @ + 1]
        ELSE [@ EXCEPT !.pc = "failed", !.reply = "none"]]
  /\ UNCHANGED <<jsToolHandlers, regPending, registeredTools, pendingToolContinuations, nonToolVars, resolvedTools, madeSessions>>

\* FoundationModelsService.sendToolResult called by client code with a
\* string output, for a call id the provider has issued or for a made-up
\* one (GhostId): the plugin runs resolveToolCall and resolves the call.
serviceSendToolResult(k) ==
  /\ k \in ToolCallIds \cup {GhostId}
  /\ IF k = GhostId
       THEN /\ ~resolveToolCall(pendingToolContinuations, k).resumed
            /\ UNCHANGED <<toolCalls, pendingToolContinuations>>
       ELSE /\ toolCalls[k].pc # "none"
            /\ toolCalls[k].reached < MaxSends
            /\ toolCalls' = [toolCalls EXCEPT
                  ![k].reached = @ + 1,
                  ![k].resumed = IF resolveToolCall(pendingToolContinuations, k).resumed
                                   THEN @ + 1 ELSE @]
            /\ pendingToolContinuations' = resolveToolCall(pendingToolContinuations, k).pending
  /\ UNCHANGED <<jsToolHandlers, regPending, registeredTools, nonToolVars, resolvedTools, madeSessions>>

\* what two unsynchronised writes to the pendingToolContinuations
\* dictionary, made at the same time by different threads, can leave
\* behind: both, or only one of them
RaceOutcomes == {"both", "storeLost", "removeLost"}

\* JSToolBridge.call stores the continuation of a new call j (on the
\* generation's task) while sendToolResult for call k runs resolveToolCall
\* (on the bridge's thread).  Nothing orders the two accesses to the
\* dictionary: the continuation of k is resumed, and of the insertion of j
\* and the removal of k either both take effect or one is lost.
JSToolBridgeCallDuringResolve(j, t, k, o) ==
  /\ toolCalls[j].pc = "none"
  /\ \A b \in ToolCallIds : b < j => toolCalls[b].pc # "none"
  /\ t \in DOMAIN registeredTools
  /\ k \in pendingToolContinuations
  /\ toolCalls[k].reached < MaxSends
  /\ o \in RaceOutcomes
  /\ toolCalls' = [toolCalls EXCEPT ![j].toolId = t, ![j].pc = "event",
                                    ![k].reached = @ + 1, ![k].resumed = @ + 1]
  /\ pendingToolContinuations' =
       CASE o = "both" -> (pendingToolContinuations \ {k}) \cup {j}
         [] o = "storeLost" -> pendingToolContinuations \ {k}
         [] o = "removeLost" -> pendingToolContinuations \cup {j}
  /\ UNCHANGED <<jsToolHandlers, regPending, registeredTools, nonToolVars, resolvedTools, madeSessions>>

(* ------------------- stateless generation: argument checks ------------- *)
\* the operations followed from their arguments to their result
ValidatedOps == {"generateText", "generateSummary", "generateWithSchema",
                 "generateWithInstructions"}

\* string arguments a caller can pass: none (undefined), empty, non-empty
StringArgs == {NoOutput, Str(""), Str("hello")}

\* JSON Schema type names
Primitives == {"string", "number", "integer", "boolean"}
TypeNames == Primitives \cup {"object", "array"}

\* the value of one entry of `properties`: something that is not an
\* object (dict = FALSE), or an object with or without a string `type`
\* ("none") and, for arrays, with or without `items.type` ("none")
PropSpecs ==
  {[dict |-> FALSE, type |-> "none", items |-> "none"]}
  \cup {[dict |-> TRUE, type |-> t, items |-> "none"] : t \in TypeNames \cup {"none"}}
  \cup {[dict |-> TRUE, type |-> "array", items |-> i] : i \in TypeNames}

PropNames == 1..MaxProps
PropMaps == UNION {[S -> PropSpecs] : S \in SUBSET PropNames}

\* the values passed as `schema`: undefined, an object JSON.stringify throws
\* on, a JSON array, or an object with or without `type` and `properties`
Schemas ==
  {[NoSchema EXCEPT !.kind = k] : k \in {"undefined", "circular", "array"}}
  \cup {[kind |-> "dict", type |-> t, hasProps |-> TRUE, properties |-> ps] :
          t \in {"object", "array", "none"}, ps \in PropMaps}
  \cup {[kind |-> "dict", type |-> t, hasProps |-> FALSE, properties |-> <<>>] :
          t \in {"object", "array", "none"}}

\* the calls a client can make
Requests ==
  {[NoRequest EXCEPT !.op = op, !.prompt = p, !.pc = "called"] :
     op \in {"generateText", "generateSummary"}, p \in StringArgs}
  \cup {[NoRequest EXCEPT !.op = "generateWithInstructions", !.prompt = p,
                          !.instructions = i, !.pc = "called"] :
          p \in StringArgs, i \in StringArgs}
  \cup {[NoRequest EXCEPT !.op = "generateWithSchema", !.prompt = p,
                          !.schema = sc, !.pc = "called"] :
          p \in StringArgs, sc \in Schemas}

\* JSON.stringify(schema) in generateWithSchema: "throws" for a value it
\* cannot serialize, undefined for undefined, else the JSON text
Stringify(sc) ==
  CASE sc.kind = "circular" -> "throws"
    [] sc.kind = "undefined" -> "undefined"
    [] OTHER -> "json"

\* The wrapper method runs up to its plugin call (the availability query
\* has reported available).
GenCall ==
  /\ gen.pc = "called"
  /\ gen' = IF gen.op = "generateWithSchema" /\ Stringify(gen.schema) = "throws"
              THEN [gen EXCEPT !.pc = "done", !.result = FailCode(gen.op)]
              ELSE [gen EXCEPT !.pc = "plugin"]
  /\ UNCHANGED <<bridgeVars, chat, lateVars>>

\* the plugin method's guard on its arguments: TRUE when the call goes on
\* to the provider
PluginGuard(r) ==
  CASE r.op = "generateText" -> r.prompt.defined /\ r.prompt.text # ""
    [] r.op = "generateSummary" -> r.prompt.defined
    [] r.op = "generateWithInstructions" -> r.prompt.defined /\ r.instructions.defined
    [] r.op = "generateWithSchema" -> r.prompt.defined /\ Stringify(r.schema) = "json"

\* The plugin method checks its arguments and rejects, or hands on to the
\* provider.
PluginCheck ==
  /\ gen.pc = "plugin"
  /\ gen' = IF PluginGuard(gen)
              THEN [gen EXCEPT !.pc = "provider"]
              ELSE [gen EXCEPT !.pc = "replied", !.reply = "reject"]
  /\ UNCHANGED <<bridgeVars, chat, lateVars>>

\* primitiveSchema(for:) throws for anything but the four primitives
PrimitiveSchemaThrows(jsonType) == jsonType \notin Primitives

\* one pass of the loop over `properties`: TRUE when it throws.  An entry
\* that is no object or has no string `type` is skipped (`continue`).
PropertyThrows(spec) ==
  IF ~spec.dict \/ spec.type = "none" THEN FALSE
  ELSE IF spec.type = "array" /\ spec.items # "none" THEN PrimitiveSchemaThrows(spec.items)
  ELSE PrimitiveSchemaThrows(spec.type)

\* generateWithDynamicSchema up to the model call: the code of the error it
\* throws, 0 when the schema is built
SchemaError(sc) ==
  IF sc.kind # "dict" THEN -14
  ELSE IF sc.type # "object" \/ ~sc.hasProps THEN -15
  ELSE IF \E n \in DOMAIN sc.properties : PropertyThrows(sc.properties[n]) THEN -13
  ELSE 0

\* what the provider's model call can come to: a result the wrapper can
\* use, a result JSON.parse throws on, or an error
ModelOutcomes == {"resolve", "unparsable", "reject"}

\* the instructions the session of a stateless generation is created with:
\* every provider method takes its session from makeSession(), which passes
\* none (generateWithInstructions builds an Instructions value and leaves it
\* unused)
SessionInstructions(g) == NoOutput

\* The provider method runs: generateWithDynamicSchema first builds the
\* schema; then the model is asked (session.respond) and the plugin settles
\* the call.
ProviderGenerate(r) ==
  /\ gen.pc = "provider"
  /\ r \in ModelOutcomes
  /\ IF gen.op = "generateWithSchema" /\ SchemaError(gen.schema) # 0
       THEN /\ r = "reject"
            /\ gen' = [gen EXCEPT !.pc = "replied", !.reply = "reject"]
       ELSE gen' = [gen EXCEPT !.pc = "replied", !.reply = r, !.modelCalls = @ + 1,
                                   !.context = SessionInstructions(gen)]
  /\ UNCHANGED <<bridgeVars, chat, lateVars>>

\* The awaited plugin call settles: the wrapper returns the result
\* (JSON.parse of it for generateSummary and generateWithSchema) or throws
\* the operation's error.
GenSettle ==
  /\ gen.pc = "replied"
  /\ LET parsed == gen.op \in {"generateSummary", "generateWithSchema"}
         ok == gen.reply = "resolve" \/ (gen.reply = "unparsable" /\ ~parsed)
     IN gen' = [gen EXCEPT !.pc = "done",
                           !.result = IF ok THEN "ok" ELSE FailCode(gen.op)]
  /\ UNCHANGED <<bridgeVars, chat, lateVars>>

(* ------------------- chat UI: sendMessage ------------------------------ *)
Scenarios == {"basic", "conversation", "structured", "tools", "summary"}

\* the states the chat can be in when a message is sent: the scenario, the
\* streaming switch, whether instructions are switched on and not blank,
\* whether a conversation session exists, whether the schema text parses,
\* whether tools have been registered
ChatStates ==
  {[NoChat EXCEPT !.scenario = sc, !.streaming = st, !.withInstructions = wi,
                  !.hasSession = hs, !.schemaValid = sv, !.toolsRegistered = tr] :
     sc \in Scenarios, st \in BOOLEAN, wi \in BOOLEAN, hs \in BOOLEAN,
     sv \in BOOLEAN, tr \in BOOLEAN}

\* the service call that produces the response.  With streaming on only the
\* basic scenario looks at the instructions; with streaming off every
\* scenario calls generateWithInstructions when they are set.
PrimaryOp(c) ==
  IF c.withInstructions /\ (~c.streaming \/ c.scenario = "basic")
    THEN "generateWithInstructions"
  ELSE CASE c.scenario = "basic" -> "generateText"
         [] c.scenario = "conversation" -> "continueConversation"
         [] c.scenario = "structured" -> "generateWithSchema"
         [] c.scenario = "tools" -> "generateText"
         [] c.scenario = "summary" -> "generateSummary"

\* sendMessage throws before any service call: JSON.parse(jsonSchema)
\* fails, or no tool is registered
ThrowsBeforeCall(c) ==
  \/ c.scenario = "structured" /\ ~c.schemaValid
  \/ c.scenario = "tools" /\ ~c.toolsRegistered

\* sendMessage runs up to its first await.
sendMessage ==
  /\ chat.pc = "idle"
  /\ chat' =
       IF ThrowsBeforeCall(chat)
         THEN [chat EXCEPT !.pc = "done", !.shown = "error"]
       ELSE IF chat.scenario = "conversation" /\ ~chat.hasSession
         THEN [chat EXCEPT !.pc = "awaiting", !.op = "createConversationSession"]
       ELSE [chat EXCEPT !.pc = "awaiting", !.op = PrimaryOp(chat)]
  /\ UNCHANGED <<bridgeVars, gen, lateVars>>

\* what sendMessage does when the awaited call has failed: the summary case
\* of the streaming branch catches the error and calls
\* generateWithInstructions; everywhere else the error is shown
AfterFailure(c) ==
  IF c.streaming /\ c.scenario = "summary" /\ c.op = "generateSummary"
    THEN [c EXCEPT !.op = "generateWithInstructions", !.fallback = TRUE,
                   !.failed = @ \cup {c.op}]
    ELSE [c EXCEPT !.pc = "done", !.shown = "error", !.failed = @ \cup {c.op}]

\* The awaited service call settles and sendMessage runs on: to the next
\* call, or to its end with the response or the error on display.
ChatSettle(outcome) ==
  /\ chat.pc = "awaiting"
  /\ outcome \in {"ok", "fail"}
  /\ chat' =
       IF outcome = "fail" THEN AfterFailure(chat)
       ELSE IF chat.op = "createConversationSession"
         THEN [chat EXCEPT !.hasSession = TRUE, !.op = PrimaryOp(chat)]
       ELSE [chat EXCEPT !.pc = "done", !.shown = "response"]
  /\ UNCHANGED <<bridgeVars, gen, lateVars>>

(* ------------------- provider: chunks of one stream -------------------- *)
\* texts are sequences of characters
Chars == {"a", "b"}
Texts == UNION {[1..n -> Chars] : n \in 0..MaxLen}

\* one snapshot of the response: `partial.text` is nil or a text
NilPartial == [hasText |-> FALSE, text |-> <<>>]
Partial(t) == [hasText |-> TRUE, text |-> t]
Partials == {NilPartial} \cup {Partial(t) : t \in Texts}

\* the snapshots the model produces for one stream
PartialSeqs == UNION {[1..n -> Partials] : n \in 1..MaxSnapshots}

\* String.hasPrefix
hasPrefix(s, p) == Len(p) <= Len(s) /\ SubSeq(s, 1, Len(p)) = p

\* the chunk for snapshot `current` after `lastText`: the new suffix when
\* current extends lastText, else the whole of current
ChunkOf(lastText, current) ==
  IF hasPrefix(current, lastText)
    THEN SubSeq(current, Len(lastText) + 1, Len(current))
    ELSE current

\* onChunk is called: an empty suffix is not sent, the whole text always is
Emits(lastText, current) ==
  ~hasPrefix(current, lastText) \/ ChunkOf(lastText, current) # <<>>

\* One pass of the loop over the response stream.
StreamPartial ==
  /\ streamTask.pc = "running"
  /\ streamTask.next <= Len(streamTask.partials)
  /\ LET partial == streamTask.partials[streamTask.next]
         lastText == streamTask.lastText
     IN streamTask' =
          IF ~partial.hasText
            THEN [streamTask EXCEPT !.next = @ + 1]
            ELSE [streamTask EXCEPT
                    !.next = @ + 1,
                    !.emitted = IF Emits(lastText, partial.text)
                                  THEN Append(@, ChunkOf(lastText, partial.text))
                                  ELSE @,
                    !.lastText = partial.text]
  /\ UNCHANGED <<bridgeVars, gen, chat, ui, mgr, resolvedTools, madeSessions>>

\* The loop ends and the completion sentinel is sent, or the stream throws
\* and the error sentinel is sent.
StreamFinish(outcome) ==
  /\ streamTask.pc = "running"
  /\ outcome \in {"complete", "error"}
  /\ outcome = "complete" => streamTask.next > Len(streamTask.partials)
  /\ streamTask' = [streamTask EXCEPT !.pc = outcome]
  /\ UNCHANGED <<bridgeVars, gen, chat, ui, mgr, resolvedTools, madeSessions>>

(* ------------------- chat UI: transcript and flags --------------------- *)
\* the scenarios followed here (instructions are switched off)
UiScenarios == {"basic", "conversation"}
ResponseLens == 1..MaxResponse

\* the ids of the user message and of the assistant message of the n-th
\* sendMessage call
UserId(n) == 2 * n - 1
AssistantId(n) == 2 * n

Message(id, role, content, streaming) ==
  [id |-> id, role |-> role, content |-> content, isStreaming |-> streaming]

\* setMessages(prev => prev.map(msg => msg.id === id ? {...msg, ...} : msg))
MapMessage(msgs, id, content, streaming) ==
  [k \in DOMAIN msgs |->
     IF msgs[k].id = id THEN [msgs[k] EXCEPT !.content = content, !.isStreaming = streaming]
     ELSE msgs[k]]

\* what the transcript shows for a message
Displayed(u, msg) == IF msg.isStreaming THEN u.streamingContent ELSE msg.content

\* sendMessage from its start to its first await
uiSendMessage ==
  /\ ~ui.isLoading
  /\ ui.send.pc \in {"idle", "done"}
  /\ ui.n < MaxMessages
  /\ LET n == ui.n + 1
         userMessage == Message(UserId(n), "user", 1, FALSE)
         assistantMessage == Message(AssistantId(n), "assistant", 0, TRUE)
         needsSession == ui.scenario = "conversation" /\ ui.conversationSession = 0
     IN ui' = [ui EXCEPT
          !.n = n,
          !.messages = IF ui.streaming THEN @ \o <<userMessage, assistantMessage>>
                       ELSE Append(@, userMessage),
          !.isLoading = TRUE,
          !.error = FALSE,
          !.isStreaming = IF ui.streaming THEN TRUE ELSE @,
          !.streamingContent = IF ui.streaming THEN 0 ELSE @,
          !.send = [NoSend EXCEPT
                      !.pc = IF needsSession THEN "starting" ELSE "checking",
                      !.streaming = ui.streaming,
                      !.scenario = ui.scenario,
                      !.session = ui.conversationSession]]
  /\ UNCHANGED <<bridgeVars, gen, chat, streamTask, mgr, resolvedTools, madeSessions>>

\* the catch and finally blocks of sendMessage
SendFails(u) == [u EXCEPT !.error = TRUE, !.isLoading = FALSE, !.send.pc = "done"]

\* startConversation settles and sendMessage runs on to the service call.
uiStartSettles(outcome) ==
  /\ ui.send.pc = "starting"
  /\ outcome \in {"ok", "fail"}
  /\ ui' = IF outcome = "fail" THEN SendFails(ui)
           ELSE [ui EXCEPT !.created = @ + 1,
                           !.conversationSession = ui.created + 1,
                           !.send.session = ui.created + 1,
                           !.send.pc = "checking"]
  /\ UNCHANGED <<bridgeVars, gen, chat, streamTask, mgr, resolvedTools, madeSessions>>

\* The service call passes its availability query: continueConversation
\* throws when the session is no longer active, every other call goes to
\* the provider.
uiCallChecked ==
  /\ ui.send.pc = "checking"
  /\ ui' = IF ui.send.scenario = "conversation" /\ ui.send.session \in ui.ended
             THEN SendFails(ui)
           ELSE [ui EXCEPT !.send.pc = "awaiting",
                           !.turns = IF ui.send.scenario = "conversation"
                                       THEN @ \cup {[session |-> ui.send.session,
                                                     ended |-> ui.send.session \in ui.ended]}
                                       ELSE @]
  /\ UNCHANGED <<bridgeVars, gen, chat, streamTask, mgr, resolvedTools, madeSessions>>

\* The service call settles: on failure the error is shown; with streaming
\* off the response is appended; with streaming on the reveal loop starts.
uiCallSettles(outcome, len) ==
  /\ ui.send.pc = "awaiting"
  /\ outcome \in {"ok", "fail"}
  /\ len \in ResponseLens
  /\ ui' = IF outcome = "fail" THEN SendFails(ui)
           ELSE IF ui.send.streaming
             THEN [ui EXCEPT !.send.pc = "revealing", !.send.fullResponse = len,
                             !.send.i = 1,
                             !.streamingContent = 1,
                             !.messages = MapMessage(@, AssistantId(ui.n), 1, TRUE)]
           ELSE [ui EXCEPT !.send.pc = "done", !.send.fullResponse = len,
                           !.messages = Append(@, Message(AssistantId(ui.n), "assistant",
                                                          len, FALSE)),
                           !.isLoading = FALSE]
  /\ UNCHANGED <<bridgeVars, gen, chat, streamTask, mgr, resolvedTools, madeSessions>>

\* The 20 ms timer of the reveal loop fires: the next character is shown,
\* or the loop is over and the message is completed.
uiRevealStep ==
  /\ ui.send.pc = "revealing"
  /\ ui' = IF ui.send.i < ui.send.fullResponse
             THEN [ui EXCEPT !.send.i = @ + 1,
                             !.streamingContent = ui.send.i + 1,
                             !.messages = MapMessage(@, AssistantId(ui.n), ui.send.i + 1, TRUE)]
           ELSE [ui EXCEPT !.send.pc = "done",
                           !.messages = MapMessage(@, AssistantId(ui.n),
                                                   ui.send.fullResponse, FALSE),
                           !.isStreaming = FALSE,
                           !.streamingContent = 0,
                           !.isLoading = FALSE]
  /\ UNCHANGED <<bridgeVars, gen, chat, streamTask, mgr, resolvedTools, madeSessions>>

\* a sendMessage call has started and not finished
SendRunning(u) == u.send.pc \notin {"idle", "done"}

\* the stop button (shown while isStreaming)
uiStopStreaming ==
  /\ ui.isStreaming
  /\ ui' = [ui EXCEPT !.isStreaming = FALSE, !.streamingContent = 0,
                      !.send.stopped = @ \/ SendRunning(ui)]
  /\ UNCHANGED <<bridgeVars, gen, chat, streamTask, mgr, resolvedTools, madeSessions>>

\* clearChat, from its button (sc is the current scenario) or from a
\* scenario button, which sets the scenario first
uiClearChat(sc) ==
  /\ sc \in UiScenarios
  /\ ui' = [ui EXCEPT !.scenario = sc,
                      !.messages = <<>>,
                      !.streamingContent = 0,
                      !.error = FALSE,
                      !.ended = IF ui.conversationSession # 0
                                  THEN @ \cup {ui.conversationSession} ELSE @,
                      !.conversationSession = 0,
                      !.send.cleared = @ \/ SendRunning(ui)]
  /\ UNCHANGED <<bridgeVars, gen, chat, streamTask, mgr, resolvedTools, madeSessions>>

(* ------------------- ToolManager component ----------------------------- *)
\* the elements of a list
Range(s) == {s[k] : k \in DOMAIN s}

\* selectedTools.filter(id => id !== toolId)
Without(s, t) == SelectSeq(s, LAMBDA x : x # t)

\* toggleTool's new selection
Toggled(s, t) == IF t \in Range(s) THEN Without(s, t) ELSE Append(s, t)

\* toggleTool, and the effect it triggers: registerSelectedTools runs with
\* the new selection up to its first await.
toggleTool(t) ==
  /\ t \in ToolIds
  /\ Len(mgr.runs) < MaxToggles
  /\ LET newSelection == Toggled(mgr.selectedTools, t)
     IN mgr' =
          IF newSelection = <<>>
            THEN [mgr EXCEPT !.selectedTools = newSelection,
                             !.registeredTools = <<>>,
                             !.runs = Append(@, [NoRun EXCEPT !.pc = "done"])]
            ELSE [mgr EXCEPT !.selectedTools = newSelection,
                             !.isRegistering = TRUE,
                             !.runs = Append(@, [NoRun EXCEPT !.pc = "awaiting",
                                                              !.selectedTools = newSelection,
                                                              !.k = 1])]
  /\ UNCHANGED <<bridgeVars, gen, chat, streamTask, ui, resolvedTools, madeSessions>>

\* The registerTool call a run is waiting for settles: the run goes on to
\* the next tool, or publishes its list, or ends in its catch block.
registerSettles(r, outcome) ==
  /\ r \in DOMAIN mgr.runs
  /\ mgr.runs[r].pc = "awaiting"
  /\ outcome \in {"ok", "fail"}
  /\ LET run == mgr.runs[r]
         pushed == Append(run.newRegisteredTools, run.selectedTools[run.k])
     IN mgr' =
          IF outcome = "fail"
            THEN [mgr EXCEPT !.runs[r].pc = "done", !.runs[r].failed = TRUE,
                             !.isRegistering = FALSE]
          ELSE IF run.k < Len(run.selectedTools)
            THEN [mgr EXCEPT !.runs[r].k = @ + 1, !.runs[r].newRegisteredTools = pushed]
          ELSE [mgr EXCEPT !.runs[r].pc = "done", !.runs[r].newRegisteredTools = pushed,
                           !.registeredTools = pushed,
                           !.isRegistering = FALSE]
  /\ UNCHANGED <<bridgeVars, gen, chat, streamTask, ui, resolvedTools, madeSessions>>

(* ------------------- specifications ------------------------------------ *)
\* The specifications run the same actions; each draws the calls the
\* callers make from the operations its properties are about.

\* session management: create / continue / end, under every interleaving
SessionCall(c, op, id) ==
  /\ c <= MaxCalls
  /\ op \in SessionOps
  /\ Begin(c, op, id)

NextSession ==
  \/ \E c \in CallIds, op \in SessionOps, id \in Ids \cup {GhostId} : SessionCall(c, op, id)
  \/ \E c \in CallIds, out \in SessionOutcomes : AvailReply(c, out)
  \/ \E c \in CallIds, r \in {"resolve", "reject"} : ProviderExec(c, r)
  \/ \E c \in CallIds : Resume(c)
  \/ \E id \in Ids \cup {GhostId} : endConversationSession(id)

SpecSession == Init /\ [][NextSession]_vars

\* the availability gate: every gated operation, every availability outcome,
\* the calls issued one after another (calls that overlap are followed in
\* the session and stream specifications)
GateCall(c, op, id) ==
  /\ c <= MaxGateCalls
  /\ calls[c].pc = "idle"
  /\ c > 1 => calls[c - 1].pc = "done"
  /\ Begin(c, op, id)

NextGate ==
  \/ \E c \in CallIds, op \in GatedOps, id \in Ids \cup {GhostId} : GateCall(c, op, id)
  \/ \E c \in CallIds, out \in AvailabilityOutcomes : AvailReply(c, out)
  \/ \E c \in CallIds, r \in {"resolve", "reject"} : ProviderExec(c, r)
  \/ \E c \in CallIds : ProviderStreamReply(c)
  \/ \E c \in CallIds : Resume(c)

SpecGate == Init /\ [][NextGate]_vars

\* streaming: concurrent streams, their events interleaved in any order
StreamCall(c) ==
  /\ c <= MaxStreams
  /\ Begin(c, "generateStreaming", GhostId)

NextStream ==
  \/ \E c \in CallIds : StreamCall(c)
  \/ \E c \in CallIds, out \in StreamOutcomes : AvailReply(c, out)
  \/ \E c \in CallIds, r \in {"resolve", "reject"} : ProviderExec(c, r)
  \/ \E c \in CallIds : ProviderStreamReply(c)
  \/ \E c \in CallIds : Resume(c)
  \/ \E s \in Ids, ch \in Chunks : StreamChunk(s, ch)
  \/ \E s \in Ids, sentinel \in Sentinels : StreamEnd(s, sentinel)
  \/ StreamingUpdate

SpecStream == Init /\ [][NextStream]_vars

\* the tool-call handshake
NextTool ==
  \/ \E t \in ToolIds, h \in HandshakeHandlers : registerCustomTool(t, h)
  \/ \E t \in ToolIds, i \in HandshakeInfos : serviceRegisterTool(t, i)
  \/ \E t \in ToolIds, i \in ToolInfos : providerRegisterToolGuard(t, i)
  \/ \E t \in ToolIds, i \in ToolInfos : providerRegisterToolInsert(t, i)
  \/ \E k \in ToolCallIds, t \in ToolIds : JSToolBridgeCall(k, t)
  \/ \E k \in ToolCallIds : ToolCallEvent(k)
  \/ \E k \in ToolCallIds, o \in HandlerOutcomes : HandlerSettles(k, o)
  \/ \E k \in ToolCallIds : sendToolResult(k)
  \/ \E k \in ToolCallIds : ToolListenerResume(k)

SpecTool == Init /\ [][NextTool]_vars

\* delivery of tool results by call id, also while new calls are issued
NextResolve ==
  \/ \E t \in ToolIds, h \in HandshakeHandlers : registerCustomTool(t, h)
  \/ \E t \in ToolIds, i \in ToolInfos : providerRegisterToolGuard(t, i)
  \/ \E t \in ToolIds, i \in ToolInfos : providerRegisterToolInsert(t, i)
  \/ \E k \in ToolCallIds, t \in ToolIds : JSToolBridgeCall(k, t)
  \/ \E k \in ToolCallIds \cup {GhostId} : serviceSendToolResult(k)
  \/ \E j, k \in ToolCallIds, t \in ToolIds, o \in RaceOutcomes :
       JSToolBridgeCallDuringResolve(j, t, k, o)

SpecResolve == Init /\ [][NextResolve]_vars

\* the tool registries: registrations through the helpers and through the
\* service method, with any handler and data, also of an id already there
RegistryRegisterCustomTool(t, h) ==
  /\ Cardinality(regPending) < MaxRegs
  /\ registerCustomTool(t, h)

RegistryServiceRegisterTool(t, i) ==
  /\ Cardinality(regPending) < MaxRegs
  /\ serviceRegisterTool(t, i)

RegistryToolCall(k, t) ==
  /\ k <= MaxRegistryCalls
  /\ JSToolBridgeCall(k, t)

NextRegistry ==
  \/ \E t \in ToolIds, h \in Handlers : RegistryRegisterCustomTool(t, h)
  \/ \E t \in ToolIds, i \in ToolInfos : RegistryServiceRegisterTool(t, i)
  \/ \E t \in ToolIds, i \in ToolInfos : providerRegisterToolGuard(t, i)
  \/ \E t \in ToolIds, i \in ToolInfos : providerRegisterToolInsert(t, i)
  \/ \E k \in ToolCallIds, t \in ToolIds : RegistryToolCall(k, t)
  \/ \E k \in ToolCallIds : ToolCallEvent(k)

SpecRegistry == Init /\ [][NextRegistry]_vars

\* one stateless generation call, for every operation and every argument
InitValidate ==
  /\ BridgeInit
  /\ gen \in Requests
  /\ chat = NoChat
  /\ LateInit

NextValidate ==
  \/ GenCall
  \/ PluginCheck
  \/ \E r \in ModelOutcomes : ProviderGenerate(r)
  \/ GenSettle

SpecValidate == InitValidate /\ [][NextValidate]_vars

\* one message sent from the chat UI, in every scenario and setting
InitChat ==
  /\ BridgeInit
  /\ gen = NoRequest
  /\ chat \in ChatStates
  /\ LateInit

NextChat ==
  \/ sendMessage
  \/ \E outcome \in {"ok", "fail"} : ChatSettle(outcome)

SpecChat == InitChat /\ [][NextChat]_vars

\* one stream task, for every sequence of snapshots
InitChunks ==
  /\ BridgeInit
  /\ gen = NoRequest
  /\ chat = NoChat
  /\ streamTask \in {[NoStreamTask EXCEPT !.partials = ps, !.pc = "running"] :
                       ps \in PartialSeqs}
  /\ ui = NoUi
  /\ mgr = NoMgr
  /\ resolvedTools = {}
  /\ madeSessions = {}

NextChunks ==
  \/ StreamPartial
  \/ \E outcome \in {"complete", "error"} : StreamFinish(outcome)

SpecChunks == InitChunks /\ [][NextChunks]_vars

\* the chat UI with streaming on or off, in both scenarios
InitUi ==
  /\ BridgeInit
  /\ gen = NoRequest
  /\ chat = NoChat
  /\ streamTask = NoStreamTask
  /\ ui \in {[NoUi EXCEPT !.streaming = st, !.scenario = sc] :
               st \in BOOLEAN, sc \in UiScenarios}
  /\ mgr = NoMgr
  /\ resolvedTools = {}
  /\ madeSessions = {}

NextUi ==
  \/ uiSendMessage
  \/ \E outcome \in {"ok", "fail"} : uiStartSettles(outcome)
  \/ uiCallChecked
  \/ \E outcome \in {"ok", "fail"}, len \in ResponseLens : uiCallSettles(outcome, len)
  \/ uiRevealStep
  \/ uiStopStreaming
  \/ \E sc \in UiScenarios : uiClearChat(sc)

SpecUi == InitUi /\ [][NextUi]_vars

\* the ToolManager under a series of selection changes
NextManager ==
  \/ \E t \in ToolIds : toggleTool(t)
  \/ \E r \in 1..MaxToggles, outcome \in {"ok", "fail"} : registerSettles(r, outcome)

SpecManager == Init /\ [][NextManager]_vars

\* tool registrations and the sessions generation calls create meanwhile
NextMake ==
  \/ \E t \in ToolIds, i \in HandshakeInfos : RegistryServiceRegisterTool(t, i)
  \/ \E t \in ToolIds, i \in ToolInfos : providerRegisterToolGuard(t, i)
  \/ \E t \in ToolIds, i \in ToolInfos : providerRegisterToolInsert(t, i)
  \/ makeSession

SpecMake == Init /\ [][NextMake]_vars

(* ======================= properties ==================================== *)

(* ------------------------------ C1 ------------------------------------- *)
\* a continueConversation call whose id, when the call was made, had never
\* been returned by createConversationSession or had been ended
StaleContinue(c) ==
  /\ calls[c].op = "continueConversation"
  /\ calls[c].stale

\* C1 as stated: continueConversation on an id never returned by
\* createConversationSession, or already passed to endConversationSession,
\* always fails with SESSION_NOT_FOUND.
C1_AlwaysSessionNotFound ==
  \A c \in CallIds :
    StaleContinue(c) /\ calls[c].pc = "done" => calls[c].result = "SESSION_NOT_FOUND"

C1_StaleFails ==
  \A c \in CallIds : StaleContinue(c) =>
    /\ calls[c].pc \in {"checking", "done"}
    /\ calls[c].provCalls = 0
    /\ calls[c].pc = "done" =>
         /\ calls[c].avail = "available" => calls[c].result = "SESSION_NOT_FOUND"
         /\ calls[c].avail \in UnavailableOutcomes => calls[c].result = "AVAILABILITY_ERROR"
         /\ calls[c].avail = "rejected" => calls[c].result = "AVAILABILITY_CHECK_FAILED"
         /\ calls[c].result # "ok"

C1_StaleAddsNothing ==
  \A c \in CallIds :
    StaleContinue(c) /\ calls[c].pc # "done" /\ calls'[c].pc = "done"
      => UNCHANGED <<activeSessions, sessObj, sessions>>

\* C1 (amended): continueConversation on an id never returned by
\* createConversationSession, or already passed to endConversationSession,
\* always fails - with SESSION_NOT_FOUND when the availability query says
\* available, with the availability error otherwise - issues no provider
\* continueConversation call and changes no session table.
C1_Theorem == [](C1_StaleFails) /\ [][C1_StaleAddsNothing]_vars

\* an ended id was used and refused as not found
C1_Witness ==
  \E c \in CallIds :
    /\ StaleContinue(c)
    /\ calls[c].id \in returned \cap ended
    /\ calls[c].pc = "done"
    /\ calls[c].result = "SESSION_NOT_FOUND"

(* ------------------------------ C2 ------------------------------------- *)
\* C2: a session's messageCount equals the number of continueConversation
\* calls on it that succeeded: +1 per success, nothing per failure, under
\* every interleaving.
C2_Theorem ==
  \A i \in Ids : sessObj[i].messageCount = succ[i]

\* a session with one successful and one provider-rejected turn
C2_Witness ==
  \E i \in Ids :
    /\ sessObj[i].messageCount >= 1
    /\ \E c \in CallIds :
         /\ calls[c].op = "continueConversation"
         /\ calls[c].id = i
         /\ calls[c].result = "CONVERSATION_FAILED"

(* ------------------------------ C3 ------------------------------------- *)
\* C3: a gated operation whose availability query reported available =
\* false has failed with an AvailabilityError and has issued no provider
\* call besides the query.
C3_Theorem ==
  \A c \in CallIds :
    calls[c].avail \in UnavailableOutcomes =>
      /\ calls[c].op \in GatedOps
      /\ calls[c].pc = "done"
      /\ calls[c].result = "AVAILABILITY_ERROR"
      /\ calls[c].provCalls = 0

\* two different gated operations were refused by the gate
C3_Witness ==
  \E c, d \in CallIds :
    /\ calls[c].op = "generateStreaming"
    /\ calls[c].avail \in UnavailableOutcomes
    /\ calls[d].op = "continueConversation"
    /\ calls[d].avail \in UnavailableOutcomes

(* ------------------------------ C4 ------------------------------------- *)
\* C4: for every tool-invocation event, at most one sendToolResult for its
\* call id gets to the provider's resolveToolCall, and when the listener has
\* finished exactly one has - whether the handler returned, threw, was
\* missing, or the first send was rejected.
C4_Theorem ==
  \A k \in ToolCallIds :
    /\ toolCalls[k].reached <= 1
    /\ toolCalls[k].pc \in {"done", "failed"} => toolCalls[k].reached = 1

\* the first send was rejected and the second one got through
C4_Witness ==
  \E k \in ToolCallIds :
    /\ toolCalls[k].pc = "done"
    /\ toolCalls[k].sent = 2
    /\ toolCalls[k].reached = 1

(* ------------------------------ C5 ------------------------------------- *)
\* the call started a stream: the provider accepted generateStreaming
StartedStream(c) ==
  /\ calls[c].op = "generateStreaming"
  /\ calls[c].pc \in {"started", "replied", "done"}
  /\ calls[c].provCalls = 1

\* the stream of call c is over for good: the call has returned, the stream
\* task has finished and none of its events is still on its way
StreamQuiescent(c) ==
  /\ StartedStream(c)
  /\ calls[c].pc = "done"
  /\ streamingSessions[calls[c].id].state = "finished"
  /\ \A i \in DOMAIN evq : evq[i].callId # calls[c].id

\* positions in callback c's log that hold a terminal signal
TerminalsOf(c) == {i \in DOMAIN cbLog[c] : cbLog[c][i].chunk \in Sentinels}

\* C5: for every stream started by generateStreaming the callback receives
\* exactly one terminal signal and nothing after it, for every ordering of
\* the provider's events relative to the resolution of the start call.
C5_OneTerminalSignal ==
  \A c \in CallIds : StartedStream(c) =>
    /\ Cardinality(TerminalsOf(c)) <= 1
    /\ \A i \in TerminalsOf(c) : i = Len(cbLog[c])
    /\ StreamQuiescent(c) => Cardinality(TerminalsOf(c)) = 1

(* ------------------------------ C6 ------------------------------------- *)
\* C6: the caller's chunk callback is never passed one of the sentinel
\* literals.
C6_NoSentinelToCallback ==
  \A c \in CallIds : \A i \in DOMAIN cbLog[c] : cbLog[c][i].chunk \notin Sentinels

(* ------------------------------ C7 ------------------------------------- *)
\* C7: no chunk event the provider emits is dropped for lack of a listener.
C7_NoEventDropped ==
  \A s \in Ids : dropped[s] = 0

(* ------------------------------ C8 ------------------------------------- *)
\* C8: at most one listener per stream id, and no listener is left in the
\* table for a stream that has terminated (checked where nothing more can
\* happen to the stream, so that "eventually" has run out).
C8_NoListenerLeak ==
  /\ \A s \in DOMAIN streamingListeners : streamingListeners[s].streamId = s
  /\ \A c \in CallIds : StreamQuiescent(c) => calls[c].id \notin DOMAIN streamingListeners

(* ------------------------------ C9 ------------------------------------- *)
\* C9: when a streamingUpdate event is handled, the only callback that can
\* be invoked is the one of the call whose stream id the event carries; an
\* event whose id has no listener invokes no callback.
C9_RoutedById ==
  evq # <<>> /\ evq' = Tail(evq) =>
    \A c \in CallIds :
      cbLog'[c] # cbLog[c] =>
        /\ Head(evq).kind = "event"
        /\ Head(evq).callId \in DOMAIN streamingListeners
        /\ StartedStream(c)
        /\ calls[c].id = Head(evq).callId
        /\ cbLog'[c] = Append(cbLog[c], [chunk |-> Head(evq).chunk, callId |-> Head(evq).callId])

C9_Theorem == [][C9_RoutedById]_vars

\* two streams are live at once, each callback has received an event, and
\* an event found no listener
C9_Witness ==
  \E c, d \in CallIds :
    /\ c # d
    /\ cbLog[c] # <<>>
    /\ cbLog[d] # <<>>
    /\ cbLog[c][1].callId # cbLog[d][1].callId

(* ------------------------------ C10 ------------------------------------ *)
\* C10: once endConversationSession(id) has completed, the session table
\* holds no entry for id in any later state.
C10_EndedStaysRemoved ==
  \A i \in ended : i \notin activeSessions

(* ------------------------------ C11 ------------------------------------ *)
\* endConversationSession applied once, and applied again to what the
\* first application left
EndOnce(id) == EndSession(activeSessions, sessObj, id)
EndTwice(id) == EndSession(EndOnce(id).activeSessions, EndOnce(id).sessObj, id)

C11_Idempotent ==
  \A id \in KnownIds :
    /\ EndOnce(id).error = "none"
    /\ EndTwice(id).error = "none"
    /\ EndTwice(id).activeSessions = EndOnce(id).activeSessions
    /\ EndTwice(id).sessObj = EndOnce(id).sessObj
    /\ id \notin activeSessions =>
         /\ EndOnce(id).activeSessions = activeSessions
         /\ EndOnce(id).sessObj = sessObj

\* a step that ends a session leaves the listener table and the provider alone
C11_EndTouchesNothingElse ==
  (ended' # ended \/ \E i \in Ids : sessObj[i].isActive /\ ~sessObj'[i].isActive)
    => UNCHANGED <<streamingListeners, sessions, streamingSessions, evq, toolVars>>

\* C11: endConversationSession is idempotent: a second call on the same
\* id, or a call on an id that was never created, raises no error and
\* leaves the session table as the first call left it; no call touches the
\* listener table or the provider.
C11_Theorem == [](C11_Idempotent) /\ [][C11_EndTouchesNothingElse]_vars

\* a created session and a made-up id have both been ended, while another
\* session is still in the table
C11_Witness ==
  /\ GhostId \in ended
  /\ \E i \in returned \cap ended : i \notin activeSessions /\ ~sessObj[i].isActive
  /\ activeSessions # {}

(* ------------------------------ C12 ------------------------------------ *)
GenerateTextDone(c) ==
  /\ calls[c].op = "generateText"
  /\ calls[c].pc = "done"

\* C12 as stated: for every non-empty prompt, generateText either returns a
\* text that is neither null nor undefined or fails with the error code
\* GENERATION_FAILED; it never returns with a missing text.
C12_TwoOutcomes ==
  \A c \in CallIds : GenerateTextDone(c) =>
    /\ calls[c].result \in {"ok", "GENERATION_FAILED"}
    /\ calls[c].result = "ok" => ReturnsDefined("generateText")

\* C12 (amended): when the availability query reports available,
\* generateText either returns a defined text (the plugin resolved) or fails
\* with GENERATION_FAILED (the plugin rejected); when the query reports
\* unavailable or is rejected it fails with AVAILABILITY_ERROR or
\* AVAILABILITY_CHECK_FAILED; it never returns with a missing text.
C12_Theorem ==
  \A c \in CallIds : GenerateTextDone(c) =>
    /\ calls[c].avail = "available" =>
         /\ calls[c].result \in {"ok", "GENERATION_FAILED"}
         /\ calls[c].result = "ok" <=> calls[c].reply = "resolve"
    /\ calls[c].avail \in UnavailableOutcomes => calls[c].result = "AVAILABILITY_ERROR"
    /\ calls[c].avail = "rejected" => calls[c].result = "AVAILABILITY_CHECK_FAILED"
    /\ calls[c].result = "ok" => ReturnsDefined("generateText")

\* one generateText call returned its text, another failed in the provider
C12_Witness ==
  \E c, d \in CallIds :
    /\ GenerateTextDone(c) /\ calls[c].result = "ok"
    /\ GenerateTextDone(d) /\ calls[d].result = "GENERATION_FAILED"

(* ------------------------------ C13 ------------------------------------ *)
\* C13: each pending tool call is resumed at most once: the first
\* sendToolResult for a call id resumes the blocked call and removes the
\* pending entry, and a later one, or one for an unknown id, changes
\* nothing.
C13_ResolvedAtMostOnce ==
  \A k \in ToolCallIds :
    /\ toolCalls[k].resumed <= 1
    /\ toolCalls[k].resumed >= 1 => k \notin pendingToolContinuations
    /\ toolCalls[k].pc # "none" /\ toolCalls[k].reached >= 1 => toolCalls[k].resumed >= 1

(* ------------------------------ C14 ------------------------------------ *)
\* C14: every tool registered with the provider has its handler in the
\* client handler registry, so no tool-call event is answered with the
\* empty no-handler payload.
C14_RegisteredHasHandler ==
  /\ \A t \in DOMAIN registeredTools : t \in DOMAIN jsToolHandlers
  /\ \A k \in ToolCallIds : toolCalls[k].pc # "sendNoHandler"

(* ------------------------------ C15 ------------------------------------ *)
\* in one step no entry of either registry is changed or removed
C15_EntriesStay ==
  /\ \A t \in DOMAIN jsToolHandlers :
       t \in DOMAIN jsToolHandlers' /\ jsToolHandlers'[t] = jsToolHandlers[t]
  /\ \A t \in DOMAIN registeredTools :
       t \in DOMAIN registeredTools' /\ registeredTools'[t] = registeredTools[t]

\* C15: registering a tool id that is already registered changes nothing:
\* the handler, name and description first registered for an id stay in
\* effect in the client registry and in the provider registry, and no
\* registration is removed, also with two registrations in flight.
C15_ReRegisterIsNoOp == [][C15_EntriesStay]_vars

(* ------------------------------ C16 ------------------------------------ *)
\* a step in which a wrapper operation issues a provider call: a gated
\* operation's call, a registerTool call, or a sendToolResult call
IssuesRegisterTool == \E r \in regPending' \ regPending : ~r.guarded
IssuesSendToolResult == \E k \in ToolCallIds : toolCalls'[k].reached > toolCalls[k].reached
IssuedByGatedCall(c) ==
  /\ calls'[c].provCalls > calls[c].provCalls
  /\ calls'[c].avail = "available"

C16_ProviderCallIsGated ==
  /\ \A c \in CallIds :
       calls'[c].provCalls > calls[c].provCalls => calls'[c].avail = "available"
  /\ IssuesRegisterTool \/ IssuesSendToolResult => \E c \in CallIds : IssuedByGatedCall(c)

\* C16: every wrapper operation that asks the provider for tool or session
\* work, registerTool and sendToolResult included, issues its provider call
\* only after an availability query that came back available.
C16_GateBeforeToolCalls == [][C16_ProviderCallIsGated]_vars

(* ------------------------------ C17 ------------------------------------ *)
\* C17: every stateless generation operation rejects an empty prompt, and
\* generateWithInstructions also rejects empty instructions, with an error
\* and without invoking the model.
C17_EmptyInputRejected ==
  gen.op \in ValidatedOps /\
  (gen.prompt = Str("") \/ (gen.op = "generateWithInstructions" /\ gen.instructions = Str("")))
    => /\ gen.modelCalls = 0
       /\ gen.pc = "done" => gen.result # "ok"

(* ------------------------------ C18 ------------------------------------ *)
\* the schemas the claim allows: an object with a properties map whose
\* entries are all primitives or arrays of a primitive
SupportedProperty(spec) ==
  /\ spec.dict
  /\ \/ spec.type \in Primitives
     \/ spec.type = "array" /\ spec.items \in Primitives

SupportedSchema(sc) ==
  /\ sc.kind = "dict"
  /\ sc.type = "object"
  /\ sc.hasProps
  /\ \A n \in DOMAIN sc.properties : SupportedProperty(sc.properties[n])

\* C18: generateWithSchema accepts a schema only if it is an object schema
\* with a properties map and every property is a primitive or an array of a
\* primitive; any other schema is rejected with an error before the model
\* is asked.
C18_OnlySupportedSchemas ==
  gen.op = "generateWithSchema" /\ ~SupportedSchema(gen.schema)
    => /\ gen.modelCalls = 0
       /\ gen.pc = "done" => gen.result # "ok"

(* ------------------------------ C20 ------------------------------------ *)
\* C20: every availability result the bridge returns has one of the six
\* statuses, with available = true exactly when the status is available, so
\* every AvailabilityError thrown by ensureAvailable carries one of the five
\* unavailable statuses.
C20_StatusAlwaysEnumerated ==
  \A c \in CallIds :
    calls[c].avail \in {"available"} \cup UnavailableOutcomes =>
      /\ PluginAvailability(calls[c].avail).status \in AvailabilityStatuses
      /\ PluginAvailability(calls[c].avail).available
           <=> PluginAvailability(calls[c].avail).status = "available"
      /\ calls[c].result = "AVAILABILITY_ERROR" =>
           AvailabilityErrorStatus(calls[c].avail) \in UnavailableStatuses

(* ------------------------------ C19 ------------------------------------ *)
\* C19: in the summary scenario, whenever generateSummary fails the chat
\* falls back to instruction-based generation and shows that result instead
\* of an error, with streaming on and off; no other scenario recovers from
\* a failed call.
C19_SummaryFallsBack ==
  /\ chat.scenario = "summary" /\ "generateSummary" \in chat.failed =>
       /\ chat.fallback
       /\ chat.pc = "done" => chat.shown = "response"
  /\ chat.scenario # "summary" /\ chat.failed # {} =>
       /\ ~chat.fallback
       /\ chat.pc = "done" /\ chat.shown = "error"

(* ------------------------------ C22 ------------------------------------ *)
\* the strings the listener's catch block builds
ErrorStrings == {ErrorOutput(o) : o \in {"throws", "circular", "rejected"}}

\* the output that has got to the provider for call k
Posted(k) == toolCalls[k].out

\* C22: the output posted for a tool call is determined by the handler
\* outcome: the empty string without a handler, the handler's string when it
\* returns one, the JSON serialization of a non-string result, and an
\* "Error: " string exactly when the handler throws or rejects.
C22_OutputByOutcome ==
  \A k \in ToolCallIds : toolCalls[k].reached >= 1 =>
    /\ toolCalls[k].handler = "none" => Posted(k) = Str("")
    /\ toolCalls[k].outcome = "string" => Posted(k) = Str("4")
    /\ toolCalls[k].outcome \in {"object", "undefined", "circular"} =>
         Posted(k).defined /\ Posted(k) \notin ErrorStrings
    /\ toolCalls[k].outcome = "throws" => Posted(k) \in ErrorStrings

(* ------------------------------ C26 ------------------------------------ *)
\* C26: ended sessions are cleaned up at the provider: an id that has been
\* passed to endConversationSession, and is no longer in the wrapper's
\* active-session table, has no entry in the provider's session table.
C26_EndedSessionsLeaveProvider ==
  \A id \in ended : id \notin activeSessions => id \notin sessions

(* ------------------------------ C25 ------------------------------------ *)
\* C25: in the conversation scenario every answered user message was
\* submitted as a continueConversation turn on the session, whatever the
\* streaming and instruction settings are (so messageCount counts the
\* answered messages).
C25_ConversationUsesSession ==
  chat.scenario = "conversation" /\ chat.pc = "done" /\ chat.shown = "response" =>
    chat.op = "continueConversation"

(* ------------------------------ C24 ------------------------------------ *)
\* C24: generateWithInstructions(prompt, instructions) asks the model in a
\* session conditioned on exactly the supplied instructions.
C24_SessionHasInstructions ==
  gen.op = "generateWithInstructions" /\ gen.modelCalls >= 1 =>
    gen.context = gen.instructions

(* ------------------------------ C30 ------------------------------------ *)
\* the concatenation of a sequence of texts
RECURSIVE Concat(_)
Concat(chunks) ==
  IF chunks = <<>> THEN <<>> ELSE Head(chunks) \o Concat(Tail(chunks))

\* C30: for every stream that completes, the chunks emitted for it,
\* concatenated in emission order, are the final text of the response.
C30_ChunksMakeFinalText ==
  streamTask.pc = "complete" => Concat(streamTask.emitted) = streamTask.lastText

(* ------------------------------ C28 ------------------------------------ *)
\* C28: when a sendMessage call has finished, on success or on failure, the
\* UI is idle: isLoading and isStreaming are false and no message of the
\* transcript is flagged isStreaming.
C28_FinishedSendLeavesIdle ==
  ui.send.pc = "done" =>
    /\ ~ui.isLoading
    /\ ~ui.isStreaming
    /\ \A k \in DOMAIN ui.messages : ~ui.messages[k].isStreaming

(* ------------------------------ C21 ------------------------------------ *)
\* the assistant message of the sendMessage call that is running
ResponseShown(u) ==
  {Displayed(u, u.messages[k]) : k \in {j \in DOMAIN u.messages :
                                         u.messages[j].id = AssistantId(u.n)}}

\* C21: once the user has stopped a streaming response, what the transcript
\* shows for that response does not change any more: no later step of the
\* character reveal is shown.
C21_StopFreezesResponse ==
  [][(/\ ui.send.stopped
      /\ ui'.n = ui.n
      /\ ResponseShown(ui) # {}
      /\ ResponseShown(ui') # {}) => ResponseShown(ui') = ResponseShown(ui)]_vars

(* ------------------------------ C27 ------------------------------------ *)
\* C27: after clearChat the transcript stays free of anything belonging to
\* a request issued before the clear, and no turn is started on a session
\* that clearChat has ended.
C27_ClearedStaysClear ==
  /\ ui.send.cleared =>
       \A k \in DOMAIN ui.messages :
         ui.messages[k].id \notin {UserId(ui.n), AssistantId(ui.n)}
  /\ \A t \in ui.turns : ~t.ended

(* ------------------------------ C29 ------------------------------------ *)
\* every registration run has settled
AllSettled == \A r \in DOMAIN mgr.runs : mgr.runs[r].pc = "done"

\* C29: once all registration calls have settled, the tool ids the
\* ToolManager reports as registered are the latest selection, even when
\* runs overlap or one of them fails.
C29_RegisteredIsSelection ==
  AllSettled => Range(mgr.registeredTools) = Range(mgr.selectedTools)

(* ------------------------------ C23 ------------------------------------ *)
\* C23: a session created by makeSession includes every tool whose
\* registerTool call had resolved with success before the session was
\* created.
C23_SessionHasResolvedTools ==
  \A s \in madeSessions : s.resolved \subseteq s.tools

====
